---- MODULE Spec2Model ----
(***************************************************************************)
(* fleur: the application catalog (src/lib/data.ts, the `apps` literal)    *)
(* with its read-only consumers, and the macOS build/sign/notarize script. *)
(*                                                                         *)
(*   Spec       readers calling listAll / findByName / requiredEnvVars     *)
(*              over the shipped catalog                                   *)
(*   SpecLoad   module initialisation of the catalog from a literal (the   *)
(*              shipped one or a source-level edit of it)                  *)
(*   SpecBuild  one run of the build script                                *)
(***************************************************************************)
EXTENDS Integers, Sequences, FiniteSets, TLC

VARIABLES
  catalog,      \* the exported array `apps` as the running program holds it
  lastCall,     \* per reader: the last catalog operation, its argument, its result
  literal,      \* the array literal module initialisation evaluates
  loadStatus,   \* "unloaded" | "loaded" | "MalformedCatalog"
  observed,     \* what a consumer last read through listAll after the load
  pc,           \* build script: position
  env,          \* build script: the shell's variables
  dotenv,       \* build script: the .env file in the working directory
  answer,       \* build script: SHOULD_NOTARIZE as read from the terminal
  invoked,      \* build script: external tools run so far, in order
  teamIdSource, \* build script: where APPLE_TEAM_ID came from ("env" | "extracted")
  exitStatus,   \* build script: exit status (-1 while running)
  printed       \* build script: whether "Process complete!" was printed

vars == <<catalog, lastCall, literal, loadStatus, observed,
          pc, env, dotenv, answer, invoked, teamIdSource, exitStatus, printed>>

catalogVars == <<catalog, lastCall>>
loadVars == <<literal, loadStatus, observed>>
buildVars == <<pc, env, dotenv, answer, invoked, teamIdSource, exitStatus, printed>>

(***************************************************************************)
(* The catalog literal.                                                    *)
(***************************************************************************)

UrlIcon(light, dark) == [type |-> "url", url |-> [light |-> light, dark |-> dark]]

EnvVarSpec(name, label, description) ==
  [name |-> name, label |-> label, description |-> description]

Browser ==
  [name |-> "Browser", description |-> "Web browser", stars |-> 1000,
   icon |-> UrlIcon("/servers/browser.svg", "/servers/browser.svg"),
   category |-> "Utilities", price |-> "Get", developer |-> "Google LLC"]

HackerNews ==
  [name |-> "Hacker News", description |-> "Hacker News", stars |-> 1000,
   icon |-> UrlIcon("/servers/yc.svg", "/servers/yc.svg"),
   category |-> "Social", price |-> "Get", developer |-> "Y Combinator"]

June ==
  [name |-> "June", description |-> "June", stars |-> 1000,
   icon |-> UrlIcon("/servers/june.svg", "/servers/june.svg"),
   category |-> "Analytics", price |-> "Get", developer |-> "June",
   envVars |-> << EnvVarSpec("JUNE_API_URL", "June API URL", "June API URL"),
                  EnvVarSpec("JUNE_API_KEY", "June API Key", "June API Key") >>]

Linear ==
  [name |-> "Linear", description |-> "Linear", stars |-> 1000,
   icon |-> UrlIcon("/servers/linear-dark.svg", "/servers/linear-light.svg"),
   category |-> "Productivity", price |-> "Get", developer |-> "Linear",
   envVars |-> << EnvVarSpec("LINEAR_API_KEY", "Linear API Key",
                             "Your Linear API key for authentication") >>]

Gmail ==
  [name |-> "Gmail", description |-> "Email and messaging platform", stars |-> 1000,
   icon |-> UrlIcon("/servers/gmail.svg", "/servers/gmail.svg"),
   category |-> "Productivity", price |-> "Free", developer |-> "Google LLC"]

GoogleCalendar ==
  [name |-> "Google Calendar", description |-> "Schedule and organize events",
   stars |-> 1000,
   icon |-> UrlIcon("/servers/gcal.svg", "/servers/gcal.svg"),
   category |-> "Productivity", price |-> "Free", developer |-> "Google LLC"]

\* Mutants of the literal: the slips a source-level edit of the array makes.
apps_DuplicateName ==
  << Browser, HackerNews, June, Linear, Gmail, [GoogleCalendar EXCEPT !.name = "Gmail"] >>

apps_EmptyEnvVars ==
  << Browser, HackerNews, June, [Linear EXCEPT !.envVars = << >>], Gmail, GoogleCalendar >>

apps_EmptyPrice ==
  << Browser, HackerNews, June, Linear, [Gmail EXCEPT !.price = ""], GoogleCalendar >>

apps_CopiedEntry ==
  << Browser, HackerNews, June, [June EXCEPT !.description = "Linear"], Gmail, GoogleCalendar >>

apps_EnvVarsSwapped ==
  << Browser, HackerNews,
     [June EXCEPT !.envVars = << June.envVars[2], June.envVars[1] >>],
     Linear, Gmail, GoogleCalendar >>

apps_Placeholder ==
  << Browser, HackerNews, June, Linear, Gmail, GoogleCalendar,
     [GoogleCalendar EXCEPT !.name = "__nonexistent__"] >>

apps_Reordered ==
  << Browser, HackerNews, June, Linear, GoogleCalendar, Gmail >>

apps == << Browser, HackerNews, June, Linear, Gmail, GoogleCalendar >>

(***************************************************************************)
(* Catalog operations (the consumers' query surface).                      *)
(***************************************************************************)

Ok(v) == [signal |-> "ok", value |-> v]
Signal(s) == [signal |-> s]
NotFound == Signal("NotFound")
MalformedCatalog == Signal("MalformedCatalog")

Matches(c, name) == {i \in DOMAIN c : c[i].name = name}

\* listAll(): the entries in declaration order.
listAll(c) == c

\* findByName(name): the unique entry of that name, NotFound when there is
\* none; several matches are never resolved to the first one.
findByName(c, name) ==
  LET m == Matches(c, name)
  IN  IF m = {} THEN NotFound
      ELSE IF Cardinality(m) = 1 THEN Ok(c[CHOOSE i \in m : TRUE])
      ELSE MalformedCatalog

\* requiredEnvVars(name): the app's envVars in declared order, the empty
\* sequence when it has no such field, NotFound when there is no such app.
requiredEnvVars(c, name) ==
  LET found == findByName(c, name)
  IN  IF found.signal # "ok" THEN found
      ELSE IF "envVars" \in DOMAIN found.value THEN Ok(found.value.envVars)
      ELSE Ok(<< >>)

Names(c) == [i \in DOMAIN c |-> c[i].name]

(***************************************************************************)
(* Readers of the shipped catalog.                                         *)
(***************************************************************************)

NumReaders == 2
Readers == 1 .. NumReaders

\* Names the readers look up: every name of the catalog, one that matches
\* no entry, and the empty name.
LookupNames == {apps[i].name : i \in DOMAIN apps} \cup {"__nonexistent__", ""}

Call(op, arg, result) == [op |-> op, arg |-> arg, result |-> result]

Init ==
  /\ catalog = apps
  /\ lastCall = [r \in Readers |-> Call("none", "", Signal("none"))]
  /\ literal = apps
  /\ loadStatus = "loaded"
  /\ observed = Signal("none")
  /\ pc = "idle"
  /\ env = << >>
  /\ dotenv = << >>
  /\ answer = << >>
  /\ invoked = << >>
  /\ teamIdSource = "unset"
  /\ exitStatus = -1
  /\ printed = FALSE

ListAll(r) ==
  /\ lastCall' = [lastCall EXCEPT ![r] = Call("listAll", "", Ok(listAll(catalog)))]
  /\ UNCHANGED <<catalog, loadVars, buildVars>>

FindByName(r, name) ==
  /\ lastCall' = [lastCall EXCEPT ![r] = Call("findByName", name, findByName(catalog, name))]
  /\ UNCHANGED <<catalog, loadVars, buildVars>>

RequiredEnvVars(r, name) ==
  /\ lastCall' = [lastCall EXCEPT ![r] =
                    Call("requiredEnvVars", name, requiredEnvVars(catalog, name))]
  /\ UNCHANGED <<catalog, loadVars, buildVars>>

Next ==
  \E r \in Readers :
    \/ ListAll(r)
    \/ \E name \in LookupNames : FindByName(r, name)
    \/ \E name \in LookupNames : RequiredEnvVars(r, name)

Spec == Init /\ [][Next]_vars

(***************************************************************************)
(* Claims about the shipped catalog and its readers (under Spec).          *)
(***************************************************************************)

Called(r, op) == lastCall[r].op = op

NoDuplicates(seq) == \A i, j \in DOMAIN seq : i # j => seq[i] # seq[j]

\* C1: no two entries of the catalog share a name: for all positions
\* i # j, apps[i].name # apps[j].name.
C1_NamesUnique ==
  \A i, j \in DOMAIN catalog : i # j => catalog[i].name # catalog[j].name

C1_Witness ==
  /\ Len(catalog) = 6
  /\ \E r \in Readers : Called(r, "listAll") /\ Len(lastCall[r].result.value) = 6

\* C2: every entry that has an envVars field has a non-empty one, and no
\* two EnvVarSpecs of it share a name.
C2_EnvVarsNonEmptyUnique ==
  \A i \in DOMAIN catalog :
    "envVars" \in DOMAIN catalog[i] =>
      /\ Len(catalog[i].envVars) > 0
      /\ NoDuplicates(Names(catalog[i].envVars))

C2_Witness ==
  /\ \E i \in DOMAIN catalog :
       "envVars" \in DOMAIN catalog[i] /\ Len(catalog[i].envVars) = 2
  /\ \E i \in DOMAIN catalog :
       "envVars" \in DOMAIN catalog[i] /\ Len(catalog[i].envVars) = 1
  /\ \E i \in DOMAIN catalog : "envVars" \notin DOMAIN catalog[i]
  /\ \E r \in Readers : Called(r, "requiredEnvVars") /\ lastCall[r].arg = "June"

\* C3: in every entry, name, description, developer, category and price
\* are non-empty strings.
C3_RequiredFieldsNonEmpty ==
  \A i \in DOMAIN catalog :
    \A f \in {"name", "description", "developer", "category", "price"} :
      /\ f \in DOMAIN catalog[i]
      /\ catalog[i][f] \in STRING
      /\ catalog[i][f] # ""

C3_Witness ==
  /\ Len(catalog) = 6
  /\ \E r \in Readers :
       /\ Called(r, "findByName")
       /\ lastCall[r].result.signal = "ok"
       /\ lastCall[r].result.value.price = "Free"

\* C4: findByName is inverse-consistent with listAll: for every entry e of
\* a sequence listAll() returned, findByName(e.name) returns an entry equal
\* to e in every field (icon paths, envVars and their order included).
C4_FindInverseOfList ==
  \A r \in Readers :
    Called(r, "listAll") =>
      \A i \in DOMAIN lastCall[r].result.value :
        LET e == lastCall[r].result.value[i]
        IN  /\ findByName(catalog, e.name) = Ok(e)
            /\ \A q \in Readers :
                 (Called(q, "findByName") /\ lastCall[q].arg = e.name)
                   => lastCall[q].result = Ok(e)

C4_Witness ==
  \E r, q \in Readers :
    /\ Called(r, "listAll")
    /\ Called(q, "findByName")
    /\ \E i \in DOMAIN lastCall[r].result.value :
         /\ lastCall[r].result.value[i].name = lastCall[q].arg
         /\ lastCall[q].result = Ok(lastCall[r].result.value[i])
         /\ "envVars" \in DOMAIN lastCall[q].result.value

\* C5: requiredEnvVars(name) returns exactly the EnvVarSpecs the named app
\* declares, in declared order, and the empty sequence when the app has no
\* envVars field: "Browser" yields the empty sequence, "Linear" exactly
\* LINEAR_API_KEY, "June" exactly JUNE_API_URL then JUNE_API_KEY.
C5_RequiredEnvVarsDeclared ==
  \A r \in Readers :
    Called(r, "requiredEnvVars") =>
      LET res == lastCall[r].result
          arg == lastCall[r].arg
      IN  /\ arg = "Browser" => res = Ok(<< >>)
          /\ arg = "Linear" =>
               res.signal = "ok" /\ Names(res.value) = << "LINEAR_API_KEY" >>
          /\ arg = "June" =>
               /\ res.signal = "ok"
               /\ Names(res.value) = << "JUNE_API_URL", "JUNE_API_KEY" >>
          /\ \A i \in DOMAIN catalog :
               catalog[i].name = arg =>
                 /\ res.signal = "ok"
                 /\ "envVars" \in DOMAIN catalog[i] => res.value = catalog[i].envVars
                 /\ "envVars" \notin DOMAIN catalog[i] => res.value = << >>

C5_Witness ==
  \E r, q \in Readers :
    /\ Called(r, "requiredEnvVars") /\ lastCall[r].arg = "June"
    /\ Len(lastCall[r].result.value) = 2
    /\ Called(q, "requiredEnvVars") /\ lastCall[q].arg = "Browser"
    /\ lastCall[q].result = Ok(<< >>)

DeclarationOrder ==
  << "Browser", "Hacker News", "June", "Linear", "Gmail", "Google Calendar" >>

EntryNames == {apps[i].name : i \in DOMAIN apps}

WithEnvVars == {i \in DOMAIN apps : "envVars" \in DOMAIN apps[i]}

EnvVarNames(e) == {e.envVars[k].name : k \in DOMAIN e.envVars}

\* The shipped literal and its single-field edits: an entry renamed (to
\* another entry's name or to ""), an icon path blanked, an env var renamed
\* (to a sibling's name or to "").
Literals ==
  {apps}
    \cup {[apps EXCEPT ![i].name = n] : i \in DOMAIN apps, n \in EntryNames \cup {""}}
    \cup {[apps EXCEPT ![i].icon.url.light = ""] : i \in DOMAIN apps}
    \cup {[apps EXCEPT ![i].icon.url.dark = ""] : i \in DOMAIN apps}
    \cup UNION {{[apps EXCEPT ![i].envVars[k].name = n] :
                   k \in DOMAIN apps[i].envVars, n \in EnvVarNames(apps[i]) \cup {""}} :
                i \in WithEnvVars}

\* What the validation contract rejects: an empty or duplicated name, an
\* EnvVarSpec name empty or duplicated within its app, an empty icon path.
Malformed(c) ==
  \/ \E i \in DOMAIN c : c[i].name = ""
  \/ ~NoDuplicates(Names(c))
  \/ \E i \in DOMAIN c :
       /\ "envVars" \in DOMAIN c[i]
       /\ \/ \E k \in DOMAIN c[i].envVars : c[i].envVars[k].name = ""
          \/ ~NoDuplicates(Names(c[i].envVars))
  \/ \E i \in DOMAIN c : c[i].icon.url.light = "" \/ c[i].icon.url.dark = ""

InitLoad ==
  /\ literal \in Literals
  /\ loadStatus = "unloaded"
  /\ catalog = << >>
  /\ observed = Signal("none")
  /\ lastCall = [r \in Readers |-> Call("none", "", Signal("none"))]
  /\ pc = "idle"
  /\ env = << >>
  /\ dotenv = << >>
  /\ answer = << >>
  /\ invoked = << >>
  /\ teamIdSource = "unset"
  /\ exitStatus = -1
  /\ printed = FALSE

\* Mutant: initialisation that validates the literal and fails fast.
ModuleInit_Validating ==
  /\ loadStatus = "unloaded"
  /\ IF Malformed(literal)
       THEN loadStatus' = "MalformedCatalog" /\ UNCHANGED catalog
       ELSE loadStatus' = "loaded" /\ catalog' = literal
  /\ UNCHANGED <<lastCall, literal, observed, buildVars>>

\* The module body: the literal is bound to `apps` as written.
ModuleInit ==
  /\ loadStatus = "unloaded"
  /\ catalog' = literal
  /\ loadStatus' = "loaded"
  /\ UNCHANGED <<lastCall, literal, observed, buildVars>>

\* A consumer that imported the module reads the whole catalog.
Observe ==
  /\ loadStatus = "loaded"
  /\ observed' = Ok(listAll(catalog))
  /\ UNCHANGED <<catalog, lastCall, literal, loadStatus, buildVars>>

NextLoad == ModuleInit \/ Observe

SpecLoad == InitLoad /\ [][NextLoad]_vars

\* C7 (as claimed): validation runs at construction and fails fast: a
\* catalog with an empty or duplicated name (two entries named "Gmail"), an
\* empty or duplicated EnvVarSpec name within an app, or an empty icon path
\* fails construction with MalformedCatalog, and no consumer observes it.
C7_LoadFailsFast ==
  /\ (loadStatus # "unloaded" /\ Malformed(literal)) => loadStatus = "MalformedCatalog"
  /\ observed.signal = "ok" => ~Malformed(observed.value)

\* C7 (amended): construction never validates and never fails: once the
\* module has initialised, the catalog is the literal exactly as written,
\* well-formed or not, consumers observe exactly that literal, and
\* MalformedCatalog is never signalled; the shipped literal itself is
\* well-formed.
C7_LoadIsUnvalidated ==
  /\ loadStatus # "unloaded" => (loadStatus = "loaded" /\ catalog = literal)
  /\ observed.signal = "ok" => observed.value = literal
  /\ literal = apps => ~Malformed(literal)

C7_Witness ==
  /\ loadStatus = "loaded"
  /\ Cardinality(Matches(catalog, "Gmail")) = 2
  /\ Malformed(catalog)
  /\ observed = Ok(literal)

(***************************************************************************)
(* The build script.  Shell strings are sequences of characters.           *)
(***************************************************************************)

MaxIdLen == 4

\* "A" stands for a character of [A-Z0-9], "a" for any other character
\* that is neither a parenthesis nor a newline.
IdAlphabet == {"(", ")", "A", "a"}

Strings(n) == UNION {[1 .. k -> IdAlphabet] : k \in 0 .. n}

InClass(ch) == ch = "A"

\* First position at or after i that is not a character of [A-Z0-9].
RECURSIVE ClassRunEnd(_, _)
ClassRunEnd(s, i) ==
  IF i <= Len(s) /\ InClass(s[i]) THEN ClassRunEnd(s, i + 1) ELSE i

\* Where a match of ([A-Z0-9]*) starting at i ends, 0 when none starts there.
MatchEnd(s, i) ==
  IF s[i] # "(" THEN 0
  ELSE LET j == ClassRunEnd(s, i + 1)
       IN  IF j <= Len(s) /\ s[j] = ")" THEN j ELSE 0

\* grep -o '([A-Z0-9]*)': the non-overlapping matches from the left, one
\* per output line.
RECURSIVE GrepO(_, _)
GrepO(s, i) ==
  IF i > Len(s) THEN << >>
  ELSE LET e == MatchEnd(s, i)
       IN  IF e > 0 THEN << SubSeq(s, i, e) >> \o GrepO(s, e + 1)
           ELSE GrepO(s, i + 1)

RECURSIVE Lines(_)
Lines(ms) == IF ms = << >> THEN << >> ELSE Head(ms) \o << "\n" >> \o Lines(Tail(ms))

\* tr -d '()'
TrDeleteParens(s) == SelectSeq(s, LAMBDA ch : ch \notin {"(", ")"})

\* $( ... ) drops the trailing newlines of the output.
RECURSIVE StripTrailingNewlines(_)
StripTrailingNewlines(s) ==
  IF s # << >> /\ s[Len(s)] = "\n"
    THEN StripTrailingNewlines(SubSeq(s, 1, Len(s) - 1))
    ELSE s

\* $(echo "$APPLE_SIGNING_IDENTITY" | grep -o '([A-Z0-9]*)' | tr -d '()')
ExtractTeamId(identity) ==
  StripTrailingNewlines(TrDeleteParens(Lines(GrepO(identity, 1))))

\* read: leading and trailing blanks of the line are dropped.
RECURSIVE TrimLeft(_)
TrimLeft(s) == IF s # << >> /\ Head(s) = " " THEN TrimLeft(Tail(s)) ELSE s

RECURSIVE TrimRight(_)
TrimRight(s) ==
  IF s # << >> /\ s[Len(s)] = " " THEN TrimRight(SubSeq(s, 1, Len(s) - 1)) ELSE s

ReadLine(line) == TrimRight(TrimLeft(line))

\* [[ "$SHOULD_NOTARIZE" =~ ^[Yy]$ ]]
WantsNotarize(a) == Len(a) = 1 /\ a[1] \in {"y", "Y"}

EnvNames == {"APPLE_SIGNING_IDENTITY", "APPLE_TEAM_ID", "APPLE_ID", "APPLE_PASSWORD"}

\* [ -z "$X" ]: unset and empty are the same.
IsEmpty(v) == v = << >>

\* The .env file: absent, one whose sourcing fails (a line that is not an
\* assignment: the failing command's status), or assignments.
DotEnvFiles ==
  { [kind |-> "absent"],
    [kind |-> "broken", status |-> 2],
    [kind |-> "broken", status |-> 127],
    [kind |-> "assignments",
     set |-> [v \in {"APPLE_ID", "APPLE_PASSWORD"} |-> << "x" >>]],
    [kind |-> "assignments",
     set |-> [v \in {"APPLE_SIGNING_IDENTITY"} |-> << "a", "(", "A", ")" >>]],
    [kind |-> "assignments",
     set |-> [v \in {"APPLE_TEAM_ID"} |-> << >>]] }

\* What is typed at the prompt: a line (ended by a newline) or input that
\* ends before any newline.
TerminalInputs ==
  [line : { << >>, << "y" >>, << "Y" >>, << "n" >>, << "y", "e", "s" >>, << " ", "y", " " >> },
   eof : BOOLEAN]

\* Exit statuses of an external tool.
ToolStatuses == {0, 1}

InitBuild ==
  /\ pc = "start"
  /\ env \in [APPLE_SIGNING_IDENTITY : Strings(MaxIdLen),
              APPLE_TEAM_ID : {<< >>, << "A" >>},
              APPLE_ID : {<< >>, << "x" >>},
              APPLE_PASSWORD : {<< >>, << "x" >>}]
  /\ dotenv \in DotEnvFiles
  /\ answer = << >>
  /\ invoked = << >>
  /\ teamIdSource = "unset"
  /\ exitStatus = -1
  /\ printed = FALSE
  /\ catalog = << >>
  /\ lastCall = [r \in Readers |-> Call("none", "", Signal("none"))]
  /\ literal = << >>
  /\ loadStatus = "unloaded"
  /\ observed = Signal("none")

Exit(status) ==
  /\ pc' = "done"
  /\ exitStatus' = status

\* set -a; source .env; set +a (under set -e)
LoadDotEnv ==
  /\ pc = "start"
  /\ IF dotenv.kind = "broken"
       THEN Exit(dotenv.status) /\ UNCHANGED env
       ELSE /\ pc' = "check_identity"
            /\ env' = IF dotenv.kind = "absent" THEN env
                      ELSE [v \in EnvNames |->
                              IF v \in DOMAIN dotenv.set THEN dotenv.set[v] ELSE env[v]]
            /\ UNCHANGED exitStatus
  /\ UNCHANGED <<dotenv, answer, invoked, teamIdSource, printed, catalogVars, loadVars>>

CheckSigningIdentity ==
  /\ pc = "check_identity"
  /\ IF IsEmpty(env.APPLE_SIGNING_IDENTITY)
       THEN Exit(1)
       ELSE pc' = "check_team" /\ UNCHANGED exitStatus
  /\ UNCHANGED <<env, dotenv, answer, invoked, teamIdSource, printed, catalogVars, loadVars>>

CheckTeamId ==
  /\ pc = "check_team"
  /\ IF IsEmpty(env.APPLE_TEAM_ID)
       THEN LET extracted == ExtractTeamId(env.APPLE_SIGNING_IDENTITY)
            IN  /\ env' = [env EXCEPT !.APPLE_TEAM_ID = extracted]
                /\ IF IsEmpty(extracted)
                     THEN Exit(1) /\ UNCHANGED teamIdSource
                     ELSE /\ pc' = "prompt"
                          /\ teamIdSource' = "extracted"
                          /\ UNCHANGED exitStatus
       ELSE /\ pc' = "prompt"
            /\ teamIdSource' = "env"
            /\ UNCHANGED <<env, exitStatus>>
  /\ UNCHANGED <<dotenv, answer, invoked, printed, catalogVars, loadVars>>

\* read -p "..." SHOULD_NOTARIZE: at end of input read assigns what it got
\* and returns 1, which set -e turns into the script's exit.
Prompt ==
  /\ pc = "prompt"
  /\ \E input \in TerminalInputs :
       /\ answer' = ReadLine(input.line)
       /\ IF input.eof
            THEN Exit(1)
            ELSE pc' = "check_notarize" /\ UNCHANGED exitStatus
  /\ UNCHANGED <<env, dotenv, invoked, teamIdSource, printed, catalogVars, loadVars>>

\* Mutant: && where the script has ||.
CheckNotarizeCreds_And ==
  /\ pc = "check_notarize"
  /\ IF WantsNotarize(answer) /\ IsEmpty(env.APPLE_ID) /\ IsEmpty(env.APPLE_PASSWORD)
       THEN Exit(1)
       ELSE pc' = "enter_dir" /\ UNCHANGED exitStatus
  /\ UNCHANGED <<env, dotenv, answer, invoked, teamIdSource, printed, catalogVars, loadVars>>

CheckNotarizeCreds ==
  /\ pc = "check_notarize"
  /\ IF WantsNotarize(answer) /\ (IsEmpty(env.APPLE_ID) \/ IsEmpty(env.APPLE_PASSWORD))
       THEN Exit(1)
       ELSE pc' = "enter_dir" /\ UNCHANGED exitStatus
  /\ UNCHANGED <<env, dotenv, answer, invoked, teamIdSource, printed, catalogVars, loadVars>>

\* cd "$(dirname "$0")"; pushd src-tauri: either fails with status 1 when
\* the directory is not there.
EnterBuildDir ==
  /\ pc = "enter_dir"
  /\ \E ok \in BOOLEAN :
       IF ok THEN pc' = "build" /\ UNCHANGED exitStatus ELSE Exit(1)
  /\ UNCHANGED <<env, dotenv, answer, invoked, teamIdSource, printed, catalogVars, loadVars>>

\* Mutant: the script without set -e goes on after a failed tool.
RunTool_NoErrexit(tool, from, to) ==
  /\ pc = from
  /\ \E status \in ToolStatuses :
       /\ invoked' = Append(invoked, [tool |-> tool, status |-> status])
       /\ pc' = to
       /\ UNCHANGED exitStatus
  /\ UNCHANGED <<env, dotenv, answer, teamIdSource, printed, catalogVars, loadVars>>

\* One external tool under set -e: a non-zero status ends the script with
\* that status.
RunTool(tool, from, to) ==
  /\ pc = from
  /\ \E status \in ToolStatuses :
       /\ invoked' = Append(invoked, [tool |-> tool, status |-> status])
       /\ IF status = 0
            THEN pc' = to /\ UNCHANGED exitStatus
            ELSE Exit(status)
  /\ UNCHANGED <<env, dotenv, answer, teamIdSource, printed, catalogVars, loadVars>>

Build == RunTool("bun tauri build", "build", "sign_executable")

SignExecutable == RunTool("codesign executable", "sign_executable", "sign_bundle")

SignBundle == RunTool("codesign bundle", "sign_bundle", "create_dmg")

CreateDmg == RunTool("hdiutil create", "create_dmg", "sign_dmg")

SignDmg == RunTool("codesign dmg", "sign_dmg", "after_sign")

AfterSign ==
  /\ pc = "after_sign"
  /\ pc' = IF WantsNotarize(answer) THEN "notarize" ELSE "complete"
  /\ UNCHANGED <<env, dotenv, answer, invoked, teamIdSource, exitStatus, printed,
                 catalogVars, loadVars>>

Submit == RunTool("notarytool submit", "notarize", "staple")

Staple == RunTool("stapler staple", "staple", "complete")

Complete ==
  /\ pc = "complete"
  /\ printed' = TRUE
  /\ Exit(0)
  /\ UNCHANGED <<env, dotenv, answer, invoked, teamIdSource, catalogVars, loadVars>>

NextBuild ==
  \/ LoadDotEnv
  \/ CheckSigningIdentity
  \/ CheckTeamId
  \/ Prompt
  \/ CheckNotarizeCreds
  \/ EnterBuildDir
  \/ Build
  \/ SignExecutable
  \/ SignBundle
  \/ CreateDmg
  \/ SignDmg
  \/ AfterSign
  \/ Submit
  \/ Staple
  \/ Complete

SpecBuild == InitBuild /\ [][NextBuild]_vars

(***************************************************************************)
(* Claims about the build script (under SpecBuild).                        *)
(***************************************************************************)

\* The conditions the script gates on, over the values the shell holds.
GateHolds ==
  /\ ~IsEmpty(env.APPLE_SIGNING_IDENTITY)
  /\ ~IsEmpty(env.APPLE_TEAM_ID)
  /\ teamIdSource \in {"env", "extracted"}
  /\ teamIdSource = "extracted" =>
       env.APPLE_TEAM_ID = ExtractTeamId(env.APPLE_SIGNING_IDENTITY)
  /\ WantsNotarize(answer) => (~IsEmpty(env.APPLE_ID) /\ ~IsEmpty(env.APPLE_PASSWORD))

\* C9 (as claimed): no external tool (bun tauri build, codesign, hdiutil,
\* notarytool, stapler) is invoked unless APPLE_SIGNING_IDENTITY is
\* non-empty, APPLE_TEAM_ID is set or was extracted non-empty from the
\* signing identity, and, when the answer to the notarization prompt is y
\* or Y, APPLE_ID and APPLE_PASSWORD are both non-empty; when one of these
\* fails the script exits with status 1 before the build step.
C9_EnvGatingExitsOne ==
  /\ invoked # << >> => GateHolds
  /\ (pc = "done" /\ ~GateHolds) => (invoked = << >> /\ exitStatus = 1)

\* C9 (amended): the gating is as claimed, and a run in which one of the
\* conditions fails ends before the build step with a non-zero status; the
\* status is 1 when the script got as far as its own checks, and is the
\* failing command's status when sourcing .env ends the script first.
C9_EnvGating ==
  /\ invoked # << >> => GateHolds
  /\ (pc = "done" /\ ~GateHolds) =>
       /\ invoked = << >>
       /\ ~printed
       /\ exitStatus # 0
       /\ dotenv.kind # "broken" => exitStatus = 1
       /\ dotenv.kind = "broken" => exitStatus = dotenv.status

C9_Witness ==
  /\ invoked # << >>
  /\ invoked[1].tool = "bun tauri build"
  /\ teamIdSource = "extracted"
  /\ WantsNotarize(answer)
  /\ GateHolds

StepOrder(a) ==
  << "bun tauri build", "codesign executable", "codesign bundle",
     "hdiutil create", "codesign dmg" >>
    \o (IF WantsNotarize(a) THEN << "notarytool submit", "stapler staple" >> ELSE << >>)

\* C10: the steps run at most once each in the fixed order build, sign main
\* executable, sign app bundle, create DMG, sign DMG, then (only after an
\* answer of y or Y) notarytool submit and stapler staple; a step is invoked
\* only after every earlier step succeeded, so stapler never runs without a
\* successful submit, and "Process complete!" is printed only after the DMG
\* was signed and, when notarization was requested, stapled.
C10_StepOrder ==
  /\ Len(invoked) <= Len(StepOrder(answer))
  /\ \A k \in DOMAIN invoked :
       /\ invoked[k].tool = StepOrder(answer)[k]
       /\ k < Len(invoked) => invoked[k].status = 0
  /\ \A k \in DOMAIN invoked :
       invoked[k].tool = "stapler staple" =>
         \E j \in 1 .. (k - 1) :
           invoked[j].tool = "notarytool submit" /\ invoked[j].status = 0
  /\ printed =>
       /\ exitStatus = 0
       /\ Len(invoked) = Len(StepOrder(answer))
       /\ \A k \in DOMAIN invoked : invoked[k].status = 0

C10_Witness ==
  /\ printed
  /\ WantsNotarize(answer)
  /\ Len(invoked) = 7
  /\ invoked[7] = [tool |-> "stapler staple", status |-> 0]

====
